---- MODULE Spec2Model ----
(***************************************************************************)
(* The feed hooks of ETHEREUM-TICKER as one state machine:                 *)
(*   useCoinbasePrice     ("cbp")  ticker over a push socket               *)
(*   useCoinbaseOrderBook ("cob")  snapshot + l2update order book          *)
(*   useBinanceOrderBook  ("bob")  full-replacement order book             *)
(*   useBinancePrice      ("bp")   push socket + polled fallback           *)
(* A component mounts one hook; `hook` says which.  The hooks share no     *)
(* state, so each is explored on its own from its own initial state.       *)
(*                                                                         *)
(* Numbers.  A JavaScript number is modelled in fixed point with one       *)
(* decimal digit: the integer n stands for n/10 (prices, quantities,       *)
(* cumulative sums).  A product of two such numbers is in hundredths.      *)
(* A quotient a/b is kept as the pair [num, den] (den = 0 is NaN when      *)
(* num = 0 and an infinity otherwise).  Delays are whole milliseconds.     *)
(* Text on the wire is a sequence of one-character strings.                *)
(***************************************************************************)
EXTENDS Integers, Sequences, FiniteSets, TLC

VARIABLES
  hook,               \* which hook the component uses
  phase,              \* "init" (rendered, effect not yet run), "mounted", "unmounted"
  levels,             \* the hook's `levels` argument at the last render (order books)
  status,             \* useState status
  reconnectAttempts,  \* reconnectAttempts.current
  sockets,            \* the WebSockets that still have events to deliver
  timers,             \* armed reconnect timers, see SetTimeout
  orderBook,          \* useState orderBook (order books)
  bidsMap, asksMap,   \* bidsMap.current, asksMap.current (useCoinbaseOrderBook)
  data,               \* useState data (price hooks)
  binanceWorking,     \* binanceWorking.current (useBinancePrice)
  geckoInterval,      \* TRUE while the setInterval of the poll is armed
  fetches,            \* polls in flight
  reruns,             \* effect re-runs so far (bounded by MaxReruns)
  delays,             \* history: delays scheduled since the last open
  lastMsg,            \* history: the last message a handler accepted (not kept by useCoinbaseOrderBook)
  lastPoll            \* history: outcome of the last completed poll

vars == <<hook, phase, levels, status, reconnectAttempts, sockets, timers,
          orderBook, bidsMap, asksMap, data, binanceWorking, geckoInterval,
          fetches, reruns, delays, lastMsg, lastPoll>>

----------------------------------------------------------------------------
(* Bounds of the model *)

\* effect re-runs (a change of `levels`) explored
MaxReruns == 1
\* cap on reconnectAttempts.current in the hooks that retry without limit
MaxAttempts == 7
\* polls that may be in flight at once
MaxInFlight == 2

----------------------------------------------------------------------------
(* parseFloat and arithmetic *)

Digits == <<"0", "1", "2", "3", "4", "5", "6", "7", "8", "9">>

IsDigit(c) == \E d \in 1..10 : Digits[d] = c

DigitVal(c) == (CHOOSE d \in 1..10 : Digits[d] = c) - 1

\* the whole number n in fixed point
Num(n) == 10 * n

\* index of the first character of txt at or after i that is not a digit
RECURSIVE SkipDigits(_, _)
SkipDigits(txt, i) ==
  IF i <= Len(txt) /\ IsDigit(txt[i]) THEN SkipDigits(txt, i + 1) ELSE i

\* value of the digits txt[i..j-1] read as a decimal integer
RECURSIVE DigitsValue(_, _, _, _)
DigitsValue(txt, i, j, acc) ==
  IF i >= j THEN acc ELSE DigitsValue(txt, i + 1, j, acc * 10 + DigitVal(txt[i]))

\* parseFloat on decimal text: optional sign, integer digits, optional
\* fraction; parsing stops at the first character that fits none of these.
\* The result is in tenths; the texts used carry at most one significant
\* fraction digit, so no precision is lost.
ParseFloat(txt) ==
  LET neg   == Len(txt) >= 1 /\ txt[1] = "-"
      start == IF neg THEN 2 ELSE 1
      dot   == SkipDigits(txt, start)
      whole == DigitsValue(txt, start, dot, 0)
      tenth == IF dot < Len(txt) /\ txt[dot] = "." /\ IsDigit(txt[dot + 1])
               THEN DigitVal(txt[dot + 1]) ELSE 0
      mag   == Num(whole) + tenth
  IN  IF neg THEN 0 - mag ELSE mag

\* (a / b) * 100
Percent(a, b) == [num |-> a * 100, den |-> b]

Max(a, b) == IF a >= b THEN a ELSE b

Min(a, b) == IF a <= b THEN a ELSE b

RECURSIVE Pow2(_)
Pow2(n) == IF n = 0 THEN 1 ELSE 2 * Pow2(n - 1)

\* an optional value: null, or a value
Null == <<>>
Some(x) == <<x>>

RemoveAt(seq, i) == SubSeq(seq, 1, i - 1) \o SubSeq(seq, i + 1, Len(seq))

\* setTimeout(connect, delay): an armed timer is kept as the `levels` its
\* connect closed over (0 in the price hooks); the order of the armed
\* timers carries no meaning and is kept canonical.  The delay it was
\* armed with is recorded in `delays`.
SetTimeout(tms, lv) ==
  LET k == Cardinality({i \in DOMAIN tms : tms[i] <= lv})
  IN  SubSeq(tms, 1, k) \o <<lv>> \o SubSeq(tms, k + 1, Len(tms))

----------------------------------------------------------------------------
(* WebSocket *)

\* A socket as the hooks see it.  readyState CLOSED is not kept: a socket
\* leaves `sockets` when its close event has been handled, after which the
\* only thing a hook can still do with it, wsRef.current.close(), does
\* nothing.  established: the connection was opened.  lv: the `levels` its
\* handlers closed over.  timeout: its connection timeout is armed.
\* ref: wsRef.current is this socket.
NewSocket(lv, timeout) ==
  [readyState |-> "CONNECTING", established |-> FALSE, lv |-> lv,
   timeout |-> timeout, ref |-> TRUE]

\* ws.close()
CloseSocket(s) ==
  IF s.readyState \in {"CONNECTING", "OPEN"}
  THEN [s EXCEPT !.readyState = "CLOSING"] ELSE s

\* if (wsRef.current) wsRef.current.close()
CloseRef(socks) ==
  [i \in DOMAIN socks |-> IF socks[i].ref THEN CloseSocket(socks[i]) ELSE socks[i]]

\* wsRef.current = ws
SetRef(socks, ws) ==
  Append([i \in DOMAIN socks |-> [socks[i] EXCEPT !.ref = FALSE]], ws)

\* The close event of socket s comes with an error event before it when the
\* connection failed: it never opened, or it was lost.  `lost` is the
\* environment's choice for an open socket.
ErrorFires(s, lost) ==
  IF s.readyState = "OPEN" THEN lost ELSE ~s.established

\* The order of `sockets` carries no meaning; it is kept canonical.
SocketKey(s) ==
  (CASE s.readyState = "CONNECTING" -> 0 [] s.readyState = "OPEN" -> 1 [] OTHER -> 2)
  + (IF s.established THEN 3 ELSE 0) + (IF s.ref THEN 6 ELSE 0)
  + (IF s.timeout THEN 12 ELSE 0) + 24 * s.lv

RECURSIVE Canonical(_)
Canonical(socks) ==
  IF Len(socks) = 0 THEN <<>>
  ELSE LET rest == Canonical(Tail(socks))
           k == Cardinality({i \in DOMAIN rest : SocketKey(rest[i]) < SocketKey(Head(socks))})
       IN  SubSeq(rest, 1, k) \o <<Head(socks)>> \o SubSeq(rest, k + 1, Len(rest))

----------------------------------------------------------------------------
(* The hook's mutable state as one record, so that handlers compose *)

Cur ==
  [status |-> status, reconnectAttempts |-> reconnectAttempts,
   sockets |-> sockets, timers |-> timers, orderBook |-> orderBook,
   bidsMap |-> bidsMap, asksMap |-> asksMap, data |-> data,
   binanceWorking |-> binanceWorking, geckoInterval |-> geckoInterval,
   fetches |-> fetches, delays |-> delays, lastMsg |-> lastMsg,
   lastPoll |-> lastPoll]

Assign(st) ==
  /\ status' = st.status
  /\ reconnectAttempts' = st.reconnectAttempts
  /\ sockets' = Canonical(st.sockets)
  /\ timers' = st.timers
  /\ orderBook' = st.orderBook
  /\ bidsMap' = st.bidsMap
  /\ asksMap' = st.asksMap
  /\ data' = st.data
  /\ binanceWorking' = st.binanceWorking
  /\ geckoInterval' = st.geckoInterval
  /\ fetches' = st.fetches
  /\ delays' = st.delays
  /\ lastMsg' = st.lastMsg
  /\ lastPoll' = st.lastPoll

----------------------------------------------------------------------------
(* useCoinbasePrice *)

t1780 == <<"1", "7", "8", "0", ".", "0", "0">>
t1790 == <<"1", "7", "9", "0", ".", "0", "0">>
t1795 == <<"1", "7", "9", "5", ".", "0", "0">>
t1800 == <<"1", "8", "0", "0", ".", "0", "0">>
t1810 == <<"1", "8", "1", "0", ".", "0", "0">>
t5000 == <<"5", "0", "0", "0", ".", "5">>

\* event.data of the messages the Coinbase ticker socket may deliver;
\* parses = FALSE is text that JSON.parse rejects
CbpTicker(product, price) ==
  [parses |-> TRUE, type |-> "ticker", product_id |-> product, price |-> price,
   open_24h |-> t1790, high_24h |-> t1810, low_24h |-> t1780,
   volume_24h |-> t5000]

CbpMessages ==
  { CbpTicker("ETH-USD", t1800), CbpTicker("ETH-USD", t1795),
    CbpTicker("BTC-USD", t1810),
    [CbpTicker("ETH-USD", t1800) EXCEPT !.type = "subscriptions"],
    [CbpTicker("ETH-USD", t1800) EXCEPT !.parses = FALSE] }

CbpInitData ==
  [price |-> Null, priceChange |-> Null, priceChangePercent |-> Null,
   high24h |-> Null, low24h |-> Null, volume24h |-> Null, prevPrice |-> Null,
   open24h |-> Null]

CbpConnect(st, throws) ==
  LET st1 == [st EXCEPT !.sockets = CloseRef(@), !.status = "connecting"]
  IN  IF throws
      THEN [st1 EXCEPT !.status = "error"]
      ELSE [st1 EXCEPT !.sockets = SetRef(@, NewSocket(0, FALSE))]

CbpOnOpen(st) ==
  [st EXCEPT !.status = "connected", !.reconnectAttempts = 0, !.delays = <<>>]

CbpOnMessage(st, msg) ==
  IF msg.parses /\ msg.type = "ticker" /\ msg.product_id = "ETH-USD"
  THEN LET price   == ParseFloat(msg.price)
           open24h == ParseFloat(msg.open_24h)
       IN  [st EXCEPT
              !.data = [price |-> Some(price),
                        priceChange |-> Some(price - open24h),
                        priceChangePercent |-> Some(Percent(price - open24h, open24h)),
                        high24h |-> Some(ParseFloat(msg.high_24h)),
                        low24h |-> Some(ParseFloat(msg.low_24h)),
                        volume24h |-> Some(ParseFloat(msg.volume_24h)),
                        open24h |-> Some(open24h),
                        prevPrice |-> st.data.price],
              !.lastMsg = Some(msg)]
  ELSE st

CbpOnError(st) == [st EXCEPT !.status = "error"]

\* CoinbaseDelay computed from the counter after its increment
CoinbaseDelayAfterIncrement(n) == Min(1000 * Pow2(n + 1), 30000)

\* Math.min(1000 * Math.pow(2, reconnectAttempts.current), 30000)
CoinbaseDelay(n) == Min(1000 * Pow2(n), 30000)

CbpOnClose(st) ==
  LET delay == CoinbaseDelay(st.reconnectAttempts)
  IN  [st EXCEPT !.status = "connecting",
                 !.reconnectAttempts = @ + 1,
                 !.timers = SetTimeout(@, 0),
                 !.delays = Append(@, delay)]

CbpCleanup(st) == [st EXCEPT !.sockets = CloseRef(@)]

----------------------------------------------------------------------------
(* Order book arithmetic shared by the two order-book hooks *)

\* a JavaScript Map in insertion order: a sequence of <<key, value>>
MapHas(m, k) == \E i \in DOMAIN m : m[i][1] = k

MapSet(m, k, v) ==
  IF MapHas(m, k)
  THEN [i \in DOMAIN m |-> IF m[i][1] = k THEN <<k, v>> ELSE m[i]]
  ELSE Append(m, <<k, v>>)

MapDelete(m, k) == SelectSeq(m, LAMBDA e : e[1] # k)

\* the comparator puts a before b: (a, b) => b.price - a.price for bids,
\* (a, b) => a.price - b.price for asks
Precedes(a, b, descending) ==
  IF descending THEN a.price > b.price ELSE a.price < b.price

RECURSIVE Insert(_, _, _)
Insert(sorted, x, descending) ==
  IF Len(sorted) = 0 THEN <<x>>
  ELSE IF Precedes(x, Head(sorted), descending) THEN <<x>> \o sorted
  ELSE <<Head(sorted)>> \o Insert(Tail(sorted), x, descending)

\* Array.prototype.sort, which is stable
RECURSIVE Sort(_, _)
Sort(arr, descending) ==
  IF Len(arr) = 0 THEN <<>>
  ELSE Insert(Sort(SubSeq(arr, 1, Len(arr) - 1), descending), arr[Len(arr)], descending)

\* arr.slice(0, n)
Slice(arr, n) == SubSeq(arr, 1, Min(n, Len(arr)))

\* the running sum of the quantities of arr[1..i]
RECURSIVE Cumulative(_, _)
Cumulative(arr, i) ==
  IF i = 0 THEN 0 ELSE Cumulative(arr, i - 1) + arr[i].quantity

\* WithDepth with the quantity of the level alone as its cumulative
WithDepthNotAccumulated(arr, maxCumulative) ==
  [i \in 1..Len(arr) |->
     [price |-> arr[i].price, quantity |-> arr[i].quantity,
      total |-> arr[i].price * arr[i].quantity,
      cumulative |-> arr[i].quantity,
      depthPercent |-> Percent(arr[i].quantity, maxCumulative)]]

\* the levels of one side with total, cumulative and depthPercent
WithDepth(arr, maxCumulative) ==
  [i \in 1..Len(arr) |->
     [price |-> arr[i].price, quantity |-> arr[i].quantity,
      total |-> arr[i].price * arr[i].quantity,
      cumulative |-> Cumulative(arr, i),
      depthPercent |-> Percent(Cumulative(arr, i), maxCumulative)]]

\* the spread both hooks return with the book
NullSpread == [null |-> TRUE]

\* SpreadOf with the percentage taken of the best bid instead of the best ask
SpreadOfBestBid(book) ==
  IF Len(book.bids) > 0 /\ Len(book.asks) > 0
  THEN [null |-> FALSE,
        value |-> book.asks[1].price - book.bids[1].price,
        percent |-> Percent(book.asks[1].price - book.bids[1].price,
                            book.bids[1].price)]
  ELSE NullSpread

SpreadOf(book) ==
  IF Len(book.bids) > 0 /\ Len(book.asks) > 0
  THEN [null |-> FALSE,
        value |-> book.asks[1].price - book.bids[1].price,
        percent |-> Percent(book.asks[1].price - book.bids[1].price,
                            book.asks[1].price)]
  ELSE NullSpread

spread == SpreadOf(orderBook)

----------------------------------------------------------------------------
(* useCoinbaseOrderBook *)

p99 == <<"9", "9">>
p100 == <<"1", "0", "0">>
p100x0 == <<"1", "0", "0", ".", "0">>
p101 == <<"1", "0", "1">>
p102 == <<"1", "0", "2">>
q0 == <<"0">>
q0x5 == <<"0", ".", "5">>
q1 == <<"1">>
q2 == <<"2">>
q3 == <<"3">>
q4 == <<"4">>

\* one [price, size] of a snapshot, one [side, price, size] of an l2update;
\* iterable = FALSE is a JSON value that cannot be destructured (null)
Entry(price, size) ==
  [iterable |-> TRUE, side |-> "", price |-> price, size |-> size]

Change(side, price, size) ==
  [iterable |-> TRUE, side |-> side, price |-> price, size |-> size]

NotIterable == [iterable |-> FALSE, side |-> "", price |-> <<>>, size |-> <<>>]

\* has*: the property is present in the parsed message
CobSnapshot(bids, asks) ==
  [parses |-> TRUE, type |-> "snapshot", product_id |-> "ETH-USD",
   hasBids |-> TRUE, bids |-> bids, hasAsks |-> TRUE, asks |-> asks,
   hasChanges |-> FALSE, changes |-> <<>>]

CobUpdate(changes) ==
  [parses |-> TRUE, type |-> "l2update", product_id |-> "ETH-USD",
   hasBids |-> FALSE, bids |-> <<>>, hasAsks |-> FALSE, asks |-> <<>>,
   hasChanges |-> TRUE, changes |-> changes]

ExampleSnapshot ==
  CobSnapshot(<<Entry(p100, q2), Entry(p99, q3)>>,
              <<Entry(p101, q1), Entry(p102, q4)>>)

ZeroSnapshot == CobSnapshot(<<Entry(p100, q0)>>, <<>>)

CobChanges ==
  { Change("buy", p100, q0), Change("buy", p100, q0x5),
    Change("buy", p100x0, q0), Change("buy", p100x0, q3),
    Change("sell", p101, q0) }

CobMessages ==
  { ExampleSnapshot, ZeroSnapshot,
    [ExampleSnapshot EXCEPT !.hasAsks = FALSE, !.asks = <<>>],
    [ExampleSnapshot EXCEPT !.product_id = "BTC-USD"],
    [ExampleSnapshot EXCEPT !.parses = FALSE],
    CobUpdate(<<Change("buy", p100, q0), Change("buy", p100, q3)>>),
    CobUpdate(<<Change("buy", p99, q0), NotIterable>>) }
  \cup { CobUpdate(<<c>>) : c \in CobChanges }

\* the entries of a Map as { price, quantity } objects with quantity > 0
Entries(map) ==
  SelectSeq([i \in DOMAIN map |->
               [price |-> ParseFloat(map[i][1]), quantity |-> ParseFloat(map[i][2])]],
            LAMBDA e : e.quantity > 0)

\* Math.max(bidCumulative, askCumulative) || 1
CobMaxCumulative(bidsArray, asksArray) ==
  LET m == Max(Cumulative(bidsArray, Len(bidsArray)),
               Cumulative(asksArray, Len(asksArray)))
  IN  IF m = 0 THEN Num(1) ELSE m

\* the book processOrderBook() passes to setOrderBook
processOrderBook(bMap, aMap, lv) ==
  LET bidsArray == Slice(Sort(Entries(bMap), TRUE), lv)
      asksArray == Slice(Sort(Entries(aMap), FALSE), lv)
      maxCumulative == CobMaxCumulative(bidsArray, asksArray)
  IN  [bids |-> WithDepth(bidsArray, maxCumulative),
       asks |-> WithDepth(asksArray, maxCumulative)]

\* entries.forEach(([price, size]) => map.set(price, size)), up to the
\* first entry that throws
RECURSIVE SetAll(_, _)
SetAll(map, entries) ==
  IF Len(entries) = 0 THEN [map |-> map, threw |-> FALSE]
  ELSE IF ~Head(entries).iterable THEN [map |-> map, threw |-> TRUE]
  ELSE SetAll(MapSet(map, Head(entries).price, Head(entries).size), Tail(entries))

\* if (parseFloat(size) === 0) map.delete(price) else map.set(price, size)
ApplyChange(map, c) ==
  IF ParseFloat(c.size) = 0 THEN MapDelete(map, c.price)
  ELSE MapSet(map, c.price, c.size)

\* msg.changes.forEach(...), up to the first entry that throws
RECURSIVE ApplyChanges(_, _, _)
ApplyChanges(bMap, aMap, changes) ==
  IF Len(changes) = 0 THEN [bids |-> bMap, asks |-> aMap, threw |-> FALSE]
  ELSE IF ~Head(changes).iterable THEN [bids |-> bMap, asks |-> aMap, threw |-> TRUE]
  ELSE IF Head(changes).side = "buy"
  THEN ApplyChanges(ApplyChange(bMap, Head(changes)), aMap, Tail(changes))
  ELSE ApplyChanges(bMap, ApplyChange(aMap, Head(changes)), Tail(changes))

CobOnSnapshot(st, lv, msg) ==
  LET b == IF msg.hasBids THEN SetAll(<<>>, msg.bids)
           ELSE [map |-> <<>>, threw |-> TRUE]
      a == IF b.threw THEN [map |-> <<>>, threw |-> TRUE]
           ELSE IF msg.hasAsks THEN SetAll(<<>>, msg.asks)
           ELSE [map |-> <<>>, threw |-> TRUE]
      st1 == [st EXCEPT !.bidsMap = b.map, !.asksMap = a.map]
  IN  IF a.threw THEN st1
      ELSE [st1 EXCEPT !.orderBook = processOrderBook(b.map, a.map, lv)]

CobOnUpdate(st, lv, msg) ==
  LET r == IF msg.hasChanges THEN ApplyChanges(st.bidsMap, st.asksMap, msg.changes)
           ELSE [bids |-> st.bidsMap, asks |-> st.asksMap, threw |-> TRUE]
      st1 == [st EXCEPT !.bidsMap = r.bids, !.asksMap = r.asks]
  IN  IF r.threw THEN st1
      ELSE [st1 EXCEPT !.orderBook = processOrderBook(r.bids, r.asks, lv)]

CobOnMessage(st, lv, msg) ==
  IF ~msg.parses \/ msg.product_id # "ETH-USD" THEN st
  ELSE IF msg.type = "snapshot" THEN CobOnSnapshot(st, lv, msg)
  ELSE IF msg.type = "l2update" THEN CobOnUpdate(st, lv, msg)
  ELSE st

CobConnect(st, lv, throws) ==
  LET st1 == [st EXCEPT !.sockets = CloseRef(@), !.bidsMap = <<>>,
                        !.asksMap = <<>>, !.status = "connecting"]
  IN  IF throws
      THEN [st1 EXCEPT !.status = "error"]
      ELSE [st1 EXCEPT !.sockets = SetRef(@, NewSocket(lv, FALSE))]

CobOnOpen(st) ==
  [st EXCEPT !.status = "connected", !.reconnectAttempts = 0, !.delays = <<>>]

CobOnError(st) == [st EXCEPT !.status = "error"]

CobOnClose(st, lv) ==
  LET delay == CoinbaseDelay(st.reconnectAttempts)
  IN  [st EXCEPT !.status = "connecting",
                 !.reconnectAttempts = @ + 1,
                 !.timers = SetTimeout(@, lv),
                 !.delays = Append(@, delay)]

CobCleanup(st) == [st EXCEPT !.sockets = CloseRef(@)]

----------------------------------------------------------------------------
(* useBinanceOrderBook *)

maxReconnects == 3

BobBook(bids, asks) ==
  [parses |-> TRUE, hasBids |-> TRUE, bids |-> bids, hasAsks |-> TRUE, asks |-> asks]

BobExample ==
  BobBook(<<Entry(p100, q2), Entry(p99, q3)>>, <<Entry(p101, q1), Entry(p102, q4)>>)

BobMessages ==
  { BobExample,
    BobBook(<<Entry(p100, q0)>>, <<>>),
    BobBook(<<Entry(p99, q3), Entry(p100, q0), Entry(p100x0, q0x5)>>,
            <<Entry(p102, q4), Entry(p101, q1)>>),
    BobBook(<<Entry(p100, q0x5)>>, <<Entry(p101, q0x5), NotIterable>>),
    [BobExample EXCEPT !.hasAsks = FALSE, !.asks = <<>>],
    [BobExample EXCEPT !.parses = FALSE] }

\* data.bids.slice(0, levels).map(([price, qty]) => ({ price, quantity, total }));
\* threw: the property is missing or one of the entries kept cannot be destructured
BobSide(present, entries, lv) ==
  LET kept == Slice(entries, lv)
  IN  [threw |-> ~present \/ \E i \in DOMAIN kept : ~kept[i].iterable,
       arr |-> [i \in DOMAIN kept |->
                  [price |-> ParseFloat(kept[i].price),
                   quantity |-> ParseFloat(kept[i].size)]]]

BobOnMessage(st, lv, msg) ==
  IF ~msg.parses THEN st
  ELSE LET bids == BobSide(msg.hasBids, msg.bids, lv)
           asks == BobSide(msg.hasAsks, msg.asks, lv)
           maxCumulative == Max(Cumulative(bids.arr, Len(bids.arr)),
                                Cumulative(asks.arr, Len(asks.arr)))
       IN  IF bids.threw \/ asks.threw THEN st
           ELSE [st EXCEPT !.orderBook = [bids |-> WithDepth(bids.arr, maxCumulative),
                                          asks |-> WithDepth(asks.arr, maxCumulative)],
                           !.lastMsg = Some(msg)]

BobConnect(st, lv, throws) ==
  IF st.reconnectAttempts >= maxReconnects
  THEN [st EXCEPT !.status = "unavailable"]
  ELSE IF throws THEN [st EXCEPT !.status = "unavailable"]
  ELSE [st EXCEPT !.sockets = SetRef(@, NewSocket(lv, TRUE))]

\* the connection timeout of socket i, after 5000 ms
BobTimeout(st, i) ==
  IF st.sockets[i].readyState # "OPEN"
  THEN [st EXCEPT !.sockets[i] = CloseSocket(@), !.status = "unavailable"]
  ELSE st

BobOnOpen(st, i) ==
  [st EXCEPT !.sockets[i].timeout = FALSE, !.status = "connected",
             !.reconnectAttempts = 0, !.delays = <<>>]

BobOnError(st, i) == [st EXCEPT !.sockets[i].timeout = FALSE]

\* Math.min(1000 * Math.pow(2, reconnectAttempts.current), 10000)
BinanceDelay(n) == Min(1000 * Pow2(n), 10000)

BobOnClose(st, lv) ==
  LET n == st.reconnectAttempts + 1
  IN  IF n < maxReconnects
      THEN [st EXCEPT !.reconnectAttempts = n, !.status = "connecting",
                      !.timers = SetTimeout(@, lv),
                      !.delays = Append(@, BinanceDelay(n))]
      ELSE [st EXCEPT !.reconnectAttempts = n, !.status = "unavailable"]

BobCleanup(st) == [st EXCEPT !.sockets = CloseRef(@)]

----------------------------------------------------------------------------
(* useBinancePrice *)

t5 == <<"5", ".", "0", "0">>
tm5 == <<"-", "5", ".", "0", "0">>

\* event.data of the ethusdt@ticker stream
BpTicker(c, p) ==
  [parses |-> TRUE, c |-> c, p |-> p, P |-> q0x5, h |-> t1810, l |-> t1780,
   q |-> t5000]

BpMessages ==
  { BpTicker(t1800, t5), BpTicker(t1790, tm5),
    [BpTicker(t1800, t5) EXCEPT !.parses = FALSE] }

\* the market_data of a CoinGecko response, as JSON numbers
Gecko(price, change) ==
  [current_price |-> Num(price), price_change_24h |-> Num(change),
   price_change_percentage_24h |-> 3, high_24h |-> Num(1805),
   low_24h |-> Num(1785), total_volume |-> Num(7000)]

\* how a poll ends: the fetch rejects, the response is not ok, the
\* document lacks market_data, or it is a document
BpPollResults ==
  { [outcome |-> o, market |-> Gecko(1795, 0)] : o \in {"rejected", "notOk", "malformed"} }
  \cup { [outcome |-> "ok", market |-> Gecko(1795, 0)],
         [outcome |-> "ok", market |-> Gecko(1801, 6)] }

BpInitData ==
  [price |-> Null, priceChange |-> Null, priceChangePercent |-> Null,
   high24h |-> Null, low24h |-> Null, quoteVolume24h |-> Null, prevPrice |-> Null]

\* fetchFromCoinGecko() up to its first await: the request is in flight
BpFetchStart(st) == [st EXCEPT !.fetches = @ + 1]

\* BpFetchSettled with the push source given priority: a document that
\* arrives while binanceWorking.current is set is not written to data
BpFetchSettledUnlessLive(st, r) ==
  LET st1 == [st EXCEPT !.fetches = @ - 1]
  IN  IF r.outcome = "ok"
      THEN [st1 EXCEPT
              !.data = IF st.binanceWorking THEN @
                       ELSE [price |-> Some(r.market.current_price),
                             priceChange |-> Some(r.market.price_change_24h),
                             priceChangePercent |-> Some(r.market.price_change_percentage_24h),
                             high24h |-> Some(r.market.high_24h),
                             low24h |-> Some(r.market.low_24h),
                             quoteVolume24h |-> Some(r.market.total_volume),
                             prevPrice |-> st.data.price],
              !.status = IF ~st.binanceWorking THEN "connected" ELSE @,
              !.lastMsg = Some([source |-> "poll", market |-> r.market]),
              !.lastPoll = "ok"]
      ELSE [st1 EXCEPT !.status = IF ~st.binanceWorking THEN "error" ELSE @,
                       !.lastPoll = "failed"]

\* BpFetchSettled with the catch block setting 'error' whatever the push
\* socket does
BpFetchSettledAlwaysError(st, r) ==
  LET st1 == [st EXCEPT !.fetches = @ - 1]
  IN  IF r.outcome = "ok"
      THEN [st1 EXCEPT
              !.data = [price |-> Some(r.market.current_price),
                        priceChange |-> Some(r.market.price_change_24h),
                        priceChangePercent |-> Some(r.market.price_change_percentage_24h),
                        high24h |-> Some(r.market.high_24h),
                        low24h |-> Some(r.market.low_24h),
                        quoteVolume24h |-> Some(r.market.total_volume),
                        prevPrice |-> st.data.price],
              !.status = IF ~st.binanceWorking THEN "connected" ELSE @,
              !.lastMsg = Some([source |-> "poll", market |-> r.market]),
              !.lastPoll = "ok"]
      ELSE [st1 EXCEPT !.status = "error", !.lastPoll = "failed"]

\* fetchFromCoinGecko() from the settled fetch on
BpFetchSettled(st, r) ==
  LET st1 == [st EXCEPT !.fetches = @ - 1]
  IN  IF r.outcome = "ok"
      THEN [st1 EXCEPT
              !.data = [price |-> Some(r.market.current_price),
                        priceChange |-> Some(r.market.price_change_24h),
                        priceChangePercent |-> Some(r.market.price_change_percentage_24h),
                        high24h |-> Some(r.market.high_24h),
                        low24h |-> Some(r.market.low_24h),
                        quoteVolume24h |-> Some(r.market.total_volume),
                        prevPrice |-> st.data.price],
              !.status = IF ~st.binanceWorking THEN "connected" ELSE @,
              !.lastMsg = Some([source |-> "poll", market |-> r.market]),
              !.lastPoll = "ok"]
      ELSE [st1 EXCEPT !.status = IF ~st.binanceWorking THEN "error" ELSE @,
                       !.lastPoll = "failed"]

BpConnect(st, throws) ==
  IF throws THEN [st EXCEPT !.binanceWorking = FALSE]
  ELSE [st EXCEPT !.sockets = SetRef(@, NewSocket(0, TRUE))]

\* the connection timeout of socket i, after 5000 ms
BpTimeout(st, i) ==
  IF st.sockets[i].readyState # "OPEN"
  THEN [st EXCEPT !.sockets[i] = CloseSocket(@)]
  ELSE st

BpOnOpen(st, i) ==
  [st EXCEPT !.sockets[i].timeout = FALSE, !.binanceWorking = TRUE,
             !.status = "live", !.reconnectAttempts = 0, !.delays = <<>>]

\* BpOnMessage with prevPrice read from the data of the render that created
\* the handler (a stale closure) instead of from the updater's argument
BpOnMessageStaleClosure(st, msg) ==
  IF ~msg.parses THEN st
  ELSE [st EXCEPT
          !.data = [price |-> Some(ParseFloat(msg.c)),
                    priceChange |-> Some(ParseFloat(msg.p)),
                    priceChangePercent |-> Some(ParseFloat(msg.P)),
                    high24h |-> Some(ParseFloat(msg.h)),
                    low24h |-> Some(ParseFloat(msg.l)),
                    quoteVolume24h |-> Some(ParseFloat(msg.q)),
                    prevPrice |-> BpInitData.price],
          !.lastMsg = Some([source |-> "push", ticker |-> msg])]

\* JSON.parse throws out of the handler on text that is no JSON
BpOnMessage(st, msg) ==
  IF ~msg.parses THEN st
  ELSE [st EXCEPT
          !.data = [price |-> Some(ParseFloat(msg.c)),
                    priceChange |-> Some(ParseFloat(msg.p)),
                    priceChangePercent |-> Some(ParseFloat(msg.P)),
                    high24h |-> Some(ParseFloat(msg.h)),
                    low24h |-> Some(ParseFloat(msg.l)),
                    quoteVolume24h |-> Some(ParseFloat(msg.q)),
                    prevPrice |-> st.data.price],
          !.lastMsg = Some([source |-> "push", ticker |-> msg])]

BpOnError(st, i) ==
  [st EXCEPT !.sockets[i].timeout = FALSE, !.binanceWorking = FALSE]

\* BpOnClose giving the feed up when the attempts are exhausted: the poll
\* interval is cleared and the status reports the end
BpOnCloseGivesUp(st) ==
  LET st1 == [st EXCEPT !.binanceWorking = FALSE]
  IN  IF st.reconnectAttempts < 3
      THEN [st1 EXCEPT !.reconnectAttempts = @ + 1,
                       !.timers = SetTimeout(@, 0),
                       !.delays = Append(@, BinanceDelay(st.reconnectAttempts))]
      ELSE [st1 EXCEPT !.geckoInterval = FALSE, !.status = "unavailable"]

BpOnClose(st) ==
  LET st1 == [st EXCEPT !.binanceWorking = FALSE]
  IN  IF st.reconnectAttempts < 3
      THEN [st1 EXCEPT !.reconnectAttempts = @ + 1,
                       !.timers = SetTimeout(@, 0),
                       !.delays = Append(@, BinanceDelay(st.reconnectAttempts))]
      ELSE st1

\* the effect: fetchFromCoinGecko(); setInterval(...); connectBinance()
BpEffect(st, throws) ==
  BpConnect([BpFetchStart(st) EXCEPT !.geckoInterval = TRUE], throws)

BpCleanup(st) == [st EXCEPT !.sockets = CloseRef(@), !.geckoInterval = FALSE]

----------------------------------------------------------------------------
(* Dispatch on the mounted hook; i is the index in st.sockets of the socket *)
(* whose handler runs                                                      *)

\* what a reconnect timer calls
connect(st, lv, throws) ==
  CASE hook = "cbp" -> CbpConnect(st, throws)
    [] hook = "cob" -> CobConnect(st, lv, throws)
    [] hook = "bob" -> BobConnect(st, lv, throws)
    [] hook = "bp" -> BpConnect(st, throws)

\* the body of the effect
effect(st, lv, throws) ==
  IF hook = "bp" THEN BpEffect(st, throws) ELSE connect(st, lv, throws)

onopen(st, i) ==
  CASE hook = "cbp" -> CbpOnOpen(st)
    [] hook = "cob" -> CobOnOpen(st)
    [] hook = "bob" -> BobOnOpen(st, i)
    [] hook = "bp" -> BpOnOpen(st, i)

onmessage(st, i, msg) ==
  CASE hook = "cbp" -> CbpOnMessage(st, msg)
    [] hook = "cob" -> CobOnMessage(st, st.sockets[i].lv, msg)
    [] hook = "bob" -> BobOnMessage(st, st.sockets[i].lv, msg)
    [] hook = "bp" -> BpOnMessage(st, msg)

onerror(st, i) ==
  CASE hook = "cbp" -> CbpOnError(st)
    [] hook = "cob" -> CobOnError(st)
    [] hook = "bob" -> BobOnError(st, i)
    [] hook = "bp" -> BpOnError(st, i)

onclose(st, i) ==
  CASE hook = "cbp" -> CbpOnClose(st)
    [] hook = "cob" -> CobOnClose(st, st.sockets[i].lv)
    [] hook = "bob" -> BobOnClose(st, st.sockets[i].lv)
    [] hook = "bp" -> BpOnClose(st)

ontimeout(st, i) ==
  CASE hook = "bob" -> BobTimeout(st, i)
    [] hook = "bp" -> BpTimeout(st, i)

cleanup(st) ==
  CASE hook = "cbp" -> CbpCleanup(st)
    [] hook = "cob" -> CobCleanup(st)
    [] hook = "bob" -> BobCleanup(st)
    [] hook = "bp" -> BpCleanup(st)

Messages ==
  CASE hook = "cbp" -> CbpMessages
    [] hook = "cob" -> CobMessages
    [] hook = "bob" -> BobMessages
    [] hook = "bp" -> BpMessages

InitData ==
  CASE hook = "cbp" -> CbpInitData
    [] hook = "bp" -> BpInitData
    [] OTHER -> Null

Hooks == {"cbp", "cob", "bob", "bp"}

\* the hooks that take `levels`, and the values of it explored
OrderBooks == {"cob", "bob"}

LevelsSet == {1, 10}

\* the hooks whose reconnectAttempts has no limit in the code
Unbounded == {"cbp", "cob"}

----------------------------------------------------------------------------
(* The state machine *)

Init ==
  /\ hook \in Hooks
  /\ phase = "init"
  /\ levels \in (IF hook \in OrderBooks THEN LevelsSet ELSE {0})
  /\ status = "connecting"
  /\ reconnectAttempts = 0
  /\ sockets = <<>>
  /\ timers = <<>>
  /\ orderBook = [bids |-> <<>>, asks |-> <<>>]
  /\ bidsMap = <<>>
  /\ asksMap = <<>>
  /\ data = InitData
  /\ binanceWorking = FALSE
  /\ geckoInterval = FALSE
  /\ fetches = 0
  /\ reruns = 0
  /\ delays = <<>>
  /\ lastMsg = Null
  /\ lastPoll = "none"

\* the effect runs after the first render
Mount ==
  /\ phase = "init"
  /\ \E throws \in BOOLEAN : Assign(effect(Cur, levels, throws))
  /\ phase' = "mounted"
  /\ UNCHANGED <<hook, levels, reruns>>

\* the connection of socket i is established: its open event
SocketOpens ==
  \E i \in DOMAIN sockets :
    /\ sockets[i].readyState = "CONNECTING"
    /\ LET s  == [sockets[i] EXCEPT !.readyState = "OPEN", !.established = TRUE]
           st == [Cur EXCEPT !.sockets[i] = s]
       IN  Assign(onopen(st, i))
    /\ UNCHANGED <<hook, phase, levels, reruns>>

\* a message arrives on open socket i
SocketMessage ==
  \E i \in DOMAIN sockets, msg \in Messages :
    /\ sockets[i].readyState = "OPEN"
    /\ Assign(onmessage(Cur, i, msg))
    /\ UNCHANGED <<hook, phase, levels, reruns>>

\* socket i is closed: the connection attempt fails, the connection is lost,
\* the server closes it, or the close the hook asked for completes.  The
\* error event, when there is one, and the close event are one task.
SocketCloses ==
  \E i \in DOMAIN sockets, lost \in BOOLEAN :
    /\ hook \in Unbounded => reconnectAttempts < MaxAttempts
    /\ sockets[i].readyState # "OPEN" => lost
    /\ LET s   == sockets[i]
           st0 == [Cur EXCEPT !.sockets[i].readyState = "CLOSED"]
           st1 == IF ErrorFires(s, lost) THEN onerror(st0, i) ELSE st0
           st2 == onclose(st1, i)
       IN  Assign([st2 EXCEPT !.sockets = RemoveAt(@, i)])
    /\ UNCHANGED <<hook, phase, levels, reruns>>

\* an armed reconnect timer fires: connect()
TimerFires ==
  \E k \in DOMAIN timers, throws \in BOOLEAN :
    /\ LET st == [Cur EXCEPT !.timers = RemoveAt(@, k)]
       IN  Assign(connect(st, timers[k], throws))
    /\ UNCHANGED <<hook, phase, levels, reruns>>

\* the connection timeout of socket i fires
TimeoutFires ==
  \E i \in DOMAIN sockets :
    /\ sockets[i].timeout
    /\ Assign(ontimeout([Cur EXCEPT !.sockets[i].timeout = FALSE], i))
    /\ UNCHANGED <<hook, phase, levels, reruns>>

\* the poll interval fires: fetchFromCoinGecko()
PollTick ==
  /\ geckoInterval
  /\ fetches < MaxInFlight
  /\ Assign(BpFetchStart(Cur))
  /\ UNCHANGED <<hook, phase, levels, reruns>>

\* a poll in flight settles
PollSettles ==
  /\ fetches > 0
  /\ \E r \in BpPollResults : Assign(BpFetchSettled(Cur, r))
  /\ UNCHANGED <<hook, phase, levels, reruns>>

\* the component unmounts: the effect's cleanup
Unmount ==
  /\ phase = "mounted"
  /\ Assign(cleanup(Cur))
  /\ phase' = "unmounted"
  /\ UNCHANGED <<hook, levels, reruns>>

\* `levels` changes: the render gives connect a new identity, so the effect
\* is cleaned up (the cleanup of the previous render) and run again
Rerun ==
  /\ phase = "mounted"
  /\ hook \in OrderBooks
  /\ reruns < MaxReruns
  /\ \E lv \in LevelsSet \ {levels}, throws \in BOOLEAN :
       /\ levels' = lv
       /\ Assign(effect(cleanup(Cur), lv, throws))
  /\ reruns' = reruns + 1
  /\ UNCHANGED <<hook, phase>>

Next ==
  \/ Mount
  \/ SocketOpens
  \/ SocketMessage
  \/ SocketCloses
  \/ TimerFires
  \/ TimeoutFires
  \/ PollTick
  \/ PollSettles
  \/ Unmount
  \/ Rerun

Spec == Init /\ [][Next]_vars

----------------------------------------------------------------------------
(* Properties *)

StrictlyDescending(side) ==
  \A i \in 1..(Len(side) - 1) : side[i].price > side[i + 1].price

StrictlyAscending(side) ==
  \A i \in 1..(Len(side) - 1) : side[i].price < side[i + 1].price

\* C1: in useCoinbaseOrderBook the published bids are strictly descending
\* by price and the published asks strictly ascending, so that no two
\* levels of a side share a price.
C1_StrictlyOrdered ==
  hook = "cob" =>
    StrictlyDescending(orderBook.bids) /\ StrictlyAscending(orderBook.asks)

\* the stores and the book after the l2update that carries the one change
\* c has been handled on a socket whose handlers closed over depth lv
AfterChange(c, lv) == CobOnMessage(Cur, lv, CobUpdate(<<c>>))

\* what C2 says of the state st reached by the change c
Settled(st, c, lv) ==
  LET store == IF c.side = "buy" THEN st.bidsMap ELSE st.asksMap
      side  == IF c.side = "buy" THEN st.orderBook.bids ELSE st.orderBook.asks
      P     == ParseFloat(c.price)
  IN  /\ st.orderBook = processOrderBook(st.bidsMap, st.asksMap, lv)
      /\ IF ParseFloat(c.size) = 0
         THEN /\ ~MapHas(store, c.price)
              /\ \A i \in DOMAIN side : side[i].price # P
         ELSE /\ \E i \in DOMAIN store : store[i] = <<c.price, c.size>>
              /\ \A i \in DOMAIN side :
                   side[i].price = P => side[i].quantity = ParseFloat(c.size)

\* C2: in useCoinbaseOrderBook, handling an l2update with size 0 for price
\* P on a side leaves P neither in that side's store nor in the published
\* side; handling one with a non-zero size q leaves P in the store with q,
\* every published level at P with quantity q, and the view the projection
\* of the stores as they are (nothing of an earlier entry is left in it).
C2_DeleteThenRestore ==
  hook = "cob" =>
    \A i \in DOMAIN sockets : \A c \in CobChanges :
      sockets[i].readyState = "OPEN" =>
        Settled(AfterChange(c, sockets[i].lv), c, sockets[i].lv)

\* a depthPercent that is a number in [0, 100]; one that is exactly 100
InRange(dp) == dp.den > 0 /\ 0 <= dp.num /\ dp.num <= 100 * dp.den

IsHundred(dp) == dp.den > 0 /\ dp.num = 100 * dp.den

SideTotal(side) == IF Len(side) = 0 THEN 0 ELSE side[Len(side)].cumulative

\* C3: in both order-book hooks every published depthPercent is a number
\* in [0, 100], and the deepest published level of the side with the
\* greater cumulative total has depthPercent 100.
C3_DepthPercentRange ==
  hook \in OrderBooks =>
    LET bids == orderBook.bids
        asks == orderBook.asks
    IN  /\ \A i \in DOMAIN bids : InRange(bids[i].depthPercent)
        /\ \A i \in DOMAIN asks : InRange(asks[i].depthPercent)
        /\ (Len(bids) > 0 /\ SideTotal(bids) >= SideTotal(asks))
             => IsHundred(bids[Len(bids)].depthPercent)
        /\ (Len(asks) > 0 /\ SideTotal(asks) >= SideTotal(bids))
             => IsHundred(asks[Len(asks)].depthPercent)

\* the stores hold the entries of the example snapshot, as received; the
\* last message replaced the book with that of the example
LastIsExample ==
  \/ /\ hook = "cob"
     /\ bidsMap = SetAll(<<>>, ExampleSnapshot.bids).map
     /\ asksMap = SetAll(<<>>, ExampleSnapshot.asks).map
  \/ hook = "bob" /\ lastMsg = Some(BobExample)

\* C4: in both order-book hooks the spread is null when a published side
\* is empty, and otherwise its value is asks[0].price - bids[0].price and
\* its percent is value / asks[0].price * 100; the book of the example
\* (bids 100/2 and 99/3, asks 101/1 and 102/4) has top bid 100/2, top ask
\* 101/1 and spread 1.
C4_Spread ==
  hook \in OrderBooks =>
    /\ IF Len(orderBook.bids) = 0 \/ Len(orderBook.asks) = 0
       THEN spread = NullSpread
       ELSE /\ ~spread.null
            /\ spread.value = orderBook.asks[1].price - orderBook.bids[1].price
            /\ spread.percent.num = 100 * spread.value
            /\ spread.percent.den = orderBook.asks[1].price
    /\ LastIsExample =>
         /\ orderBook.bids[1].price = Num(100) /\ orderBook.bids[1].quantity = Num(2)
         /\ orderBook.asks[1].price = Num(101) /\ orderBook.asks[1].quantity = Num(1)
         /\ spread.value = Num(1)

C4_Witness ==
  /\ hook = "cob"
  /\ LastIsExample
  /\ Len(orderBook.bids) = 2
  /\ spread = [null |-> FALSE, value |-> Num(1), percent |-> Percent(Num(1), Num(101))]

\* the delays the spec lists for attempts 0, 1, 2, ...
ListedDelay(i) ==
  IF i <= 5 THEN <<1000, 2000, 4000, 8000, 16000>>[i] ELSE 30000

\* C5: in useCoinbasePrice and useCoinbaseOrderBook the delays scheduled
\* since the last successful open are 1000, 2000, 4000, 8000, 16000,
\* 30000, 30000, ... in this order: non-decreasing and never above 30000.
C5_BackoffSequence ==
  hook \in {"cbp", "cob"} =>
    /\ \A i \in DOMAIN delays : delays[i] = ListedDelay(i)
    /\ \A i \in DOMAIN delays : delays[i] <= 30000
    /\ \A i \in 1..(Len(delays) - 1) : delays[i] <= delays[i + 1]

C5_Witness ==
  /\ hook = "cob"
  /\ Len(delays) >= 7
  /\ delays[5] = 16000
  /\ delays[6] = 30000
  /\ delays[7] = 30000

\* C6: in useBinanceOrderBook, after 3 closes without an open between
\* them the status is 'unavailable' and no reconnect timer is armed.
C6_UnavailableAfterThree ==
  (hook = "bob" /\ reconnectAttempts >= maxReconnects) =>
    status = "unavailable" /\ Len(timers) = 0

PrimaryOpen == \E i \in DOMAIN sockets : sockets[i].readyState = "OPEN"

\* C7: in useBinancePrice the status is 'live' exactly while the push
\* socket is open; while it is not, the status is that of the last
\* completed poll ('connecting' before any).
C7_StatusRule ==
  (hook = "bp" /\ phase = "mounted") =>
    IF PrimaryOpen THEN status = "live"
    ELSE status = (CASE lastPoll = "ok" -> "connected"
                     [] lastPoll = "failed" -> "error"
                     [] OTHER -> "connecting")

\* C8: once the cleanup of the effect has run, no socket is connecting or
\* open, and no reconnect timer, connection timeout or poll interval is
\* armed.
C8_TeardownReleases ==
  phase = "unmounted" =>
    /\ \A i \in DOMAIN sockets :
         sockets[i].readyState = "CLOSING" /\ ~sockets[i].timeout
    /\ Len(timers) = 0
    /\ ~geckoInterval

\* C9: in useBinancePrice nothing writes data or status after the cleanup
\* of the effect has run.
C9_NoWriteAfterTeardown ==
  [][(hook = "bp" /\ phase = "unmounted") => (data' = data /\ status' = status)]_vars

\* the numeric fields the last message carried
CarriedFields(m) ==
  IF m.source = "push"
  THEN [price |-> ParseFloat(m.ticker.c), priceChange |-> ParseFloat(m.ticker.p),
        priceChangePercent |-> ParseFloat(m.ticker.P),
        high24h |-> ParseFloat(m.ticker.h), low24h |-> ParseFloat(m.ticker.l),
        quoteVolume24h |-> ParseFloat(m.ticker.q)]
  ELSE [price |-> m.market.current_price, priceChange |-> m.market.price_change_24h,
        priceChangePercent |-> m.market.price_change_percentage_24h,
        high24h |-> m.market.high_24h, low24h |-> m.market.low_24h,
        quoteVolume24h |-> m.market.total_volume]

\* C10: in useBinancePrice the numeric fields of data are those of the
\* message handled last, from either channel, whatever the state of the
\* push socket: a push of 1800 leaves price 1800, a poll of 1795 after it
\* leaves 1795.
C10_LastWriteWins ==
  (hook = "bp" /\ lastMsg # Null) =>
    LET f == CarriedFields(lastMsg[1])
    IN  /\ data.price = Some(f.price)
        /\ data.priceChange = Some(f.priceChange)
        /\ data.priceChangePercent = Some(f.priceChangePercent)
        /\ data.high24h = Some(f.high24h)
        /\ data.low24h = Some(f.low24h)
        /\ data.quoteVolume24h = Some(f.quoteVolume24h)
        /\ (lastMsg[1].source = "push" /\ lastMsg[1].ticker.c = t1800)
             => data.price = Some(Num(1800))
        /\ (lastMsg[1].source = "poll" /\ lastMsg[1].market = Gecko(1795, 0))
             => data.price = Some(Num(1795))

C10_Witness ==
  /\ hook = "bp"
  /\ PrimaryOpen
  /\ status = "live"
  /\ lastMsg = Some([source |-> "poll", market |-> Gecko(1795, 0)])
  /\ data.price = Some(Num(1795))
  /\ data.prevPrice = Some(Num(1800))

PriceHooks == {"cbp", "bp"}

\* C11: in both price hooks every accepted update, from either channel,
\* leaves in prevPrice the price that was there just before it (null
\* before the first), whatever the order of pushes and polls.
C11_PrevPrice ==
  [][(hook \in PriceHooks /\ (data' # data \/ lastMsg' # lastMsg))
       => data'.prevPrice = data.price]_vars

\* a push of 1790 handled right after a poll of 1795
C11_Witness ==
  /\ hook = "bp"
  /\ lastMsg # Null
  /\ lastMsg[1].source = "push"
  /\ data.price = Some(Num(1790))
  /\ data.prevPrice = Some(Num(1795))

\* the step is a poll of useBinancePrice that ends in failure
PollFails == hook = "bp" /\ fetches' = fetches - 1 /\ lastPoll' = "failed"

\* C12: in useBinancePrice, while mounted, a failed poll leaves data as it
\* is and disturbs neither the socket, the timers nor the poll interval;
\* with the push socket open the status is and stays 'live', otherwise it
\* becomes 'error'.
C12_FailedPoll ==
  [][(PollFails /\ phase = "mounted") =>
       /\ data' = data
       /\ UNCHANGED <<sockets, timers, reconnectAttempts, binanceWorking, geckoInterval>>
       /\ IF PrimaryOpen THEN status = "live" /\ status' = "live"
          ELSE status' = "error"]_vars

C12_Witness ==
  /\ hook = "bp"
  /\ phase = "mounted"
  /\ lastPoll = "failed"
  /\ PrimaryOpen
  /\ status = "live"
  /\ data.price = Some(Num(1800))

\* handling msg in useCoinbaseOrderBook throws: the text is no JSON, a side
\* of a snapshot or the changes of an l2update are missing, or an entry
\* cannot be destructured
CobRaises(msg) ==
  \/ ~msg.parses
  \/ /\ msg.product_id = "ETH-USD"
     /\ msg.type = "snapshot"
     /\ \/ ~msg.hasBids
        \/ ~msg.hasAsks
        \/ \E k \in DOMAIN msg.bids : ~msg.bids[k].iterable
        \/ \E k \in DOMAIN msg.asks : ~msg.asks[k].iterable
  \/ /\ msg.product_id = "ETH-USD"
     /\ msg.type = "l2update"
     /\ \/ ~msg.hasChanges
        \/ \E k \in DOMAIN msg.changes : ~msg.changes[k].iterable

\* C13: in useCoinbaseOrderBook a message whose handling throws changes
\* nothing: the stores, the published book and the status after it are
\* those before it.
C13_RaisingMessageDropped ==
  hook = "cob" =>
    \A i \in DOMAIN sockets : \A msg \in CobMessages :
      (sockets[i].readyState = "OPEN" /\ CobRaises(msg)) =>
        LET st == onmessage(Cur, i, msg)
        IN  /\ st.bidsMap = bidsMap
            /\ st.asksMap = asksMap
            /\ st.orderBook = orderBook
            /\ st.status = status

\* C14: in useBinanceOrderBook, once the status is 'unavailable' it stays
\* so and no socket is created, as long as the consumer has not restarted
\* the hook (no change of `levels` so far).
C14_UnavailableTerminal ==
  [][(hook = "bob" /\ status = "unavailable" /\ reruns' = 0) =>
       /\ status' = "unavailable"
       /\ \A i \in DOMAIN sockets' : sockets'[i].readyState # "CONNECTING"]_vars

\* the push socket of useBinancePrice has used up its attempts: the last
\* close found the counter at its limit, and nothing is pending
Exhausted ==
  /\ hook = "bp"
  /\ reconnectAttempts >= 3
  /\ Len(sockets) = 0
  /\ Len(timers) = 0

\* C15: in useBinancePrice a close that finds the attempts exhausted arms
\* no timer and from then on no socket or timer appears; the poll interval
\* stays armed while the hook is mounted, a successful poll is still
\* written to data (and makes the status 'connected'), and the status is
\* never 'unavailable'.
C15_DegradesToPolling ==
  /\ [](hook = "bp" =>
          /\ status # "unavailable"
          /\ phase = "mounted" => geckoInterval)
  /\ [][/\ (hook = "bp" /\ reconnectAttempts >= 3 /\ Len(sockets') < Len(sockets))
             => timers' = timers
        /\ Exhausted => (sockets' = sockets /\ timers' = timers)
        /\ (Exhausted /\ fetches' = fetches - 1 /\ lastPoll' = "ok")
             => /\ lastMsg'[1].source = "poll"
                /\ data'.price = Some(lastMsg'[1].market.current_price)
                /\ data'.prevPrice = data.price
                /\ status' = "connected"]_vars

C15_Witness ==
  /\ Exhausted
  /\ phase = "mounted"
  /\ geckoInterval
  /\ lastPoll = "ok"
  /\ status = "connected"
  /\ data.price = Some(Num(1801))

\* handling msg in useBinanceOrderBook at depth lv reaches setOrderBook
BobApplies(msg, lv) ==
  /\ msg.parses
  /\ ~BobSide(msg.hasBids, msg.bids, lv).threw
  /\ ~BobSide(msg.hasAsks, msg.asks, lv).threw

NonIncreasing(side) ==
  \A k \in 1..(Len(side) - 1) : side[k].price >= side[k + 1].price

NonDecreasing(side) ==
  \A k \in 1..(Len(side) - 1) : side[k].price <= side[k + 1].price

\* the entries of a message side that are levels with a positive quantity
PositiveEntries(entries) ==
  {k \in DOMAIN entries : entries[k].iterable /\ ParseFloat(entries[k].size) > 0}

\* side holds the lv best-priced positive-quantity levels of entries
BestOf(side, entries, lv, descending) ==
  /\ \A k \in DOMAIN side : side[k].quantity > 0
  /\ IF descending THEN NonIncreasing(side) ELSE NonDecreasing(side)
  /\ Len(side) = Min(lv, Cardinality(PositiveEntries(entries)))
  /\ \A k \in DOMAIN side : \E j \in PositiveEntries(entries) :
       /\ side[k].price = ParseFloat(entries[j].price)
       /\ side[k].quantity = ParseFloat(entries[j].size)
  /\ \A j \in PositiveEntries(entries) :
       \/ \E k \in DOMAIN side : side[k].price = ParseFloat(entries[j].price)
       \/ /\ Len(side) > 0
          /\ IF descending
             THEN ParseFloat(entries[j].price) <= side[Len(side)].price
             ELSE ParseFloat(entries[j].price) >= side[Len(side)].price

\* C16: in useBinanceOrderBook the book published for a message holds, on
\* each side, only levels of positive quantity, in price order (bids
\* descending, asks ascending), and they are the N best-priced such levels
\* of the message.
C16_FilteredSortedBest ==
  hook = "bob" =>
    \A i \in DOMAIN sockets : \A msg \in BobMessages :
      (sockets[i].readyState = "OPEN" /\ BobApplies(msg, sockets[i].lv)) =>
        LET st == onmessage(Cur, i, msg)
        IN  /\ BestOf(st.orderBook.bids, msg.bids, sockets[i].lv, TRUE)
            /\ BestOf(st.orderBook.asks, msg.asks, sockets[i].lv, FALSE)

\* the quotient dp is the number a / b * 100
IsPercentOf(dp, a, b) == dp.den # 0 /\ dp.num * b = 100 * a * dp.den

\* C17: in both order-book hooks the depthPercent of every published level
\* is cumulative / max(bid total, ask total, 1) * 100.
C17_FloorOfOne ==
  hook \in OrderBooks =>
    LET bids == orderBook.bids
        asks == orderBook.asks
        floor == Max(Max(SideTotal(bids), SideTotal(asks)), Num(1))
    IN  /\ \A k \in DOMAIN bids :
             IsPercentOf(bids[k].depthPercent, bids[k].cumulative, floor)
        /\ \A k \in DOMAIN asks :
             IsPercentOf(asks[k].depthPercent, asks[k].cumulative, floor)

\* The reference book of the spec: one side is a sequence of
\* [price, quantity] keyed by the price as a number.
RefHas(ref, price) == \E k \in DOMAIN ref : ref[k].price = price

\* upsert, or delete when the quantity is 0 (no-op for an absent price)
RefChange(ref, price, quantity) ==
  IF quantity = 0 THEN SelectSeq(ref, LAMBDA e : e.price # price)
  ELSE IF RefHas(ref, price)
  THEN [k \in DOMAIN ref |->
          IF ref[k].price = price THEN [price |-> price, quantity |-> quantity]
          ELSE ref[k]]
  ELSE Append(ref, [price |-> price, quantity |-> quantity])

\* the entries or changes of one side applied in arrival order
RECURSIVE RefApply(_, _, _)
RefApply(ref, changes, side) ==
  IF Len(changes) = 0 THEN ref
  ELSE LET c == Head(changes)
       IN  RefApply(IF c.side = side
                    THEN RefChange(ref, ParseFloat(c.price), ParseFloat(c.size))
                    ELSE ref,
                    Tail(changes), side)

\* a store read as a reference side; its prices are distinct numbers
RefOf(map) ==
  [k \in DOMAIN map |->
     [price |-> ParseFloat(map[k][1]), quantity |-> ParseFloat(map[k][2])]]

DistinctPrices(ref) ==
  \A j, k \in DOMAIN ref : ref[j].price = ref[k].price => j = k

\* the published side is the lv best-priced positive-quantity levels of ref
ViewOf(side, ref, lv, descending) ==
  LET positive == {k \in DOMAIN ref : ref[k].quantity > 0}
  IN  /\ Len(side) = Min(lv, Cardinality(positive))
      /\ IF descending THEN StrictlyDescending(side) ELSE StrictlyAscending(side)
      /\ \A k \in DOMAIN side : \E j \in positive :
           side[k].price = ref[j].price /\ side[k].quantity = ref[j].quantity
      /\ \A j \in positive :
           \/ \E k \in DOMAIN side : side[k].price = ref[j].price
           \/ /\ Len(side) > 0
              /\ IF descending THEN ref[j].price < side[Len(side)].price
                 ELSE ref[j].price > side[Len(side)].price

\* a snapshot or l2update for ETH-USD whose handling does not throw
WellFormed(msg) ==
  /\ msg.parses
  /\ msg.product_id = "ETH-USD"
  /\ msg.type \in {"snapshot", "l2update"}
  /\ ~CobRaises(msg)

\* C18: in useCoinbaseOrderBook, when the stores hold the reference book
\* (one entry per price), handling a well-formed message publishes the
\* reference book after that message: the snapshot's contents alone, or
\* the book with the changes applied in order by price, each side cut to
\* its N best positive-quantity levels.
C18_ReferenceBook ==
  hook = "cob" =>
    \A i \in DOMAIN sockets : \A msg \in CobMessages :
      ( /\ sockets[i].readyState = "OPEN"
        /\ WellFormed(msg)
        /\ DistinctPrices(RefOf(bidsMap))
        /\ DistinctPrices(RefOf(asksMap)) ) =>
        LET st == onmessage(Cur, i, msg)
            lv == sockets[i].lv
            refBids == IF msg.type = "snapshot"
                       THEN RefApply(<<>>, msg.bids, "")
                       ELSE RefApply(RefOf(bidsMap), msg.changes, "buy")
            refAsks == IF msg.type = "snapshot"
                       THEN RefApply(<<>>, msg.asks, "")
                       ELSE RefApply(RefOf(asksMap), msg.changes, "sell")
        IN  /\ ViewOf(st.orderBook.bids, refBids, lv, TRUE)
            /\ ViewOf(st.orderBook.asks, refAsks, lv, FALSE)

\* the cumulative of every level is that of the level before it plus its
\* own quantity, and its total is price * quantity
RunningSums(side) ==
  \A k \in DOMAIN side :
    /\ side[k].cumulative =
         (IF k = 1 THEN 0 ELSE side[k - 1].cumulative) + side[k].quantity
    /\ k > 1 => side[k].cumulative >= side[k - 1].cumulative
    /\ side[k].total = side[k].price * side[k].quantity

\* C19: in both order-book hooks the cumulative of the i-th published
\* level of a side is the sum of the quantities of the published levels up
\* to it (so it does not decrease with depth and the last one is the total
\* of the levels shown), and total is price * quantity.
C19_CumulativeAndTotal ==
  hook \in OrderBooks =>
    RunningSums(orderBook.bids) /\ RunningSums(orderBook.asks)

\* the example book: bids 100/2 and 99/3, cumulative 2 and 5
C19_Witness ==
  /\ hook = "bob"
  /\ Len(orderBook.bids) = 2
  /\ orderBook.bids[1].quantity = Num(2)
  /\ orderBook.bids[2].quantity = Num(3)
  /\ orderBook.bids[2].cumulative = Num(5)
  /\ orderBook.bids[2].total = Num(99) * Num(3)
  /\ orderBook.asks[2].cumulative = Num(5)

\* the delay a hook schedules for the first failure after it is mounted
FirstDelay == IF hook = "bob" THEN 2000 ELSE 1000

\* the state after the close event of socket i, the connection being lost
AfterDrop(i) ==
  LET st0 == [Cur EXCEPT !.sockets[i].readyState = "CLOSED"]
  IN  onclose(onerror(st0, i), i)

\* C20: in every hook an open event sets reconnectAttempts to 0, and the
\* drop of a connection that is open schedules a reconnect with the first
\* delay again and does not make the status 'unavailable'.
C20_OpenResetsAttempts ==
  /\ [][(\E i \in DOMAIN sockets : \E j \in DOMAIN sockets' :
           /\ sockets[i].readyState = "CONNECTING"
           /\ sockets'[j].readyState = "OPEN"
           /\ Len(sockets') = Len(sockets)
           /\ Cardinality({k \in DOMAIN sockets' : sockets'[k].readyState = "OPEN"})
                > Cardinality({k \in DOMAIN sockets : sockets[k].readyState = "OPEN"}))
          => reconnectAttempts' = 0]_vars
  /\ [](\A i \in DOMAIN sockets :
          sockets[i].readyState = "OPEN" =>
            LET st == AfterDrop(i)
            IN  /\ Len(st.timers) = Len(timers) + 1
                /\ Len(st.delays) > 0
                /\ st.delays[Len(st.delays)] = FirstDelay
                /\ st.status # "unavailable")

\* the sockets that are connecting or open
Live == {i \in DOMAIN sockets : sockets[i].readyState \in {"CONNECTING", "OPEN"}}

\* C21: a hook has at most one socket connecting or open and at most one
\* reconnect timer armed, whatever the order of start, open, error, close,
\* timeout, timer, levels-change and teardown events; so no two sockets
\* can deliver messages into the same book.
C21_SingleConnection ==
  /\ Cardinality(Live) <= 1
  /\ Len(timers) <= 1

\* the state after the connection timeout of socket i has expired
AfterTimeout(i) == ontimeout([Cur EXCEPT !.sockets[i].timeout = FALSE], i)

\* the state after the close event of socket i, which never opened, when
\* that event is handled in state st
AfterFailure(st, i) ==
  onclose(onerror([st EXCEPT !.sockets[i].readyState = "CLOSED"], i), i)

\* what the consumer and the next attempt see of the retry loop
SameOutcome(a, b) ==
  /\ a.status = b.status
  /\ a.reconnectAttempts = b.reconnectAttempts
  /\ a.timers = b.timers
  /\ a.delays = b.delays

\* C22: in useBinanceOrderBook and useBinancePrice the expiry of the
\* connection timeout of a socket that is still connecting closes that
\* socket and is handled like a transport error at that point: by itself
\* it changes neither the status nor the attempts nor the timers, and
\* the close that follows counts one failure and gives the same status,
\* attempts and reconnect as the failure of the attempt would have; the
\* timeout of an attempt that has ended changes nothing.
C22_TimeoutLikeError ==
  \A i \in DOMAIN sockets :
    sockets[i].timeout =>
      IF sockets[i].readyState = "CONNECTING"
      THEN /\ AfterTimeout(i).sockets[i].readyState = "CLOSING"
           /\ SameOutcome(AfterTimeout(i), Cur)
           /\ SameOutcome(AfterFailure(AfterTimeout(i), i), AfterFailure(Cur, i))
      ELSE /\ SameOutcome(AfterTimeout(i), Cur)
           /\ AfterTimeout(i).sockets[i].readyState = sockets[i].readyState

\* min(baseDelayMs * 2^n, capDelayMs) with the base and the cap of the hook
BackoffDelay(n) ==
  IF hook \in Unbounded THEN Min(1000 * Pow2(n), 30000) ELSE Min(1000 * Pow2(n), 10000)

\* C23: in every hook a close that schedules a reconnect uses the delay
\* min(1000 * 2^n, cap) for the value n of reconnectAttempts before the
\* close increments it, so the first reconnect after the start or after
\* an open is delayed by 1000 ms.
C23_DelayBeforeIncrement ==
  /\ [](Len(delays) > 0 => delays[1] = 1000)
  /\ [][Len(delays') = Len(delays) + 1 =>
          delays'[Len(delays')] = BackoffDelay(reconnectAttempts)]_vars

\* The events of Spec, with the scheduling the runtime gives the hook: an
\* armed reconnect timer fires, and a socket that is failing or closing
\* delivers its close event.
LiveSpec == Spec /\ WF_vars(TimerFires) /\ WF_vars(SocketCloses)

\* the hook waits for a connection and has none connecting or open
Waiting ==
  /\ hook \in Unbounded
  /\ phase = "mounted"
  /\ status \in {"error", "connecting"}
  /\ Cardinality(Live) = 0

\* C24: in useCoinbasePrice and useCoinbaseOrderBook every failed attempt
\* (the socket errors or closes, or it cannot be created) is followed by
\* another attempt unless the hook is torn down: a mounted hook with
\* status 'error' or 'connecting' and no socket connecting or open gets a
\* socket again.  Closes are counted up to MaxAttempts.
C24_EventuallyRetries ==
  Waiting ~> (Cardinality(Live) > 0 \/ phase # "mounted" \/ reconnectAttempts >= MaxAttempts)

\* C25: in useCoinbaseOrderBook the published book is, in every state, the
\* top-`levels` projection of the side stores as they are, and with it the
\* spread; so right after a reconnect has cleared the stores, and after a
\* message that failed part way, the consumer sees the book of the stores
\* and not the book of the previous connection.
C25_BookIsProjection ==
  hook = "cob" => orderBook = processOrderBook(bidsMap, asksMap, levels)

\* C26: in useBinanceOrderBook, while the status is 'unavailable' no
\* socket is connecting or open and no reconnect timer is armed, so no
\* book message is applied under that status; and while a socket is open
\* the status is 'connected'.
C26_UnavailableIsQuiet ==
  hook = "bob" =>
    /\ status = "unavailable" => (Cardinality(Live) = 0 /\ Len(timers) = 0)
    /\ PrimaryOpen => status = "connected"

\* the hooks whose retries the code limits
Bounded == {"bob", "bp"}

\* connection attempts a bounded hook may make without an open between
\* them: the first and the reconnects
MaxWithoutOpen == IF hook = "bob" THEN 3 ELSE 4

\* C27: in useBinanceOrderBook and useBinancePrice reconnectAttempts stays
\* within 0..3 whatever the order of open, close, timeout, timer,
\* levels-change and teardown events, and the attempts made without an
\* open between them (the first one and the reconnects scheduled since)
\* are at most 3 in useBinanceOrderBook and 4 in useBinancePrice.
C27_AttemptsBounded ==
  hook \in Bounded =>
    /\ reconnectAttempts \in 0..3
    /\ 1 + Len(delays) <= MaxWithoutOpen

====
